---- MODULE Spec2Model ----
(***************************************************************************)
(* Resumable chunked bulk import of the caselaw repository:               *)
(*   CSVChunkManager (backend/app/services/csv_chunk_manager.py),         *)
(*   DataImporter    (backend/app/services/data_importer.py),             *)
(*   CSVChunkProgress (backend/app/models/csv_chunk_progress.py),         *)
(*   import_chunks    (backend/app/api/routes/chunk_management.py),       *)
(*   fix_chunks       (backend/app/api/routes/chunk_fixer.py),            *)
(*   import_table_parallel (import_turbo.py).                             *)
(*                                                                         *)
(* The ledger is the committed content of table csv_chunk_progress, the   *)
(* files are the chunk files on disk, the target is the committed content *)
(* of the table the chunks are imported into.  One import_chunked run is  *)
(* executed step by step, one step per database commit, so that a process *)
(* crash can fall between any two commits.                                *)
(***************************************************************************)
EXTENDS Integers, Sequences, FiniteSets, TLC

VARIABLES ledger, files, target, pc, run, last, hist, ops, cs, im, peer, turbo

vars == <<ledger, files, target, pc, run, last, hist, ops, cs, im, peer, turbo>>

(***************************************************************************)
(* Bounds of the model.                                                    *)
(***************************************************************************)
\* data rows of a source file handed to chunk_csv in Spec, SpecRun, SpecLedger
MaxRows == 2
\* largest chunk_size handed to chunk_csv there
MaxChunkSize == MaxRows
\* largest max_retries handed to import_chunked
MaxRetries == 2
\* most csv_chunk_progress records the ledger holds after a chunk_csv call
MaxLedger == MaxRows
\* most operations (chunk_csv, import_chunked, reset_chunks, delete_chunks
\* calls and file losses) of one behaviour
MaxOps == 3
\* data rows of a chunk file handed to an importer in SpecImporter
MaxFileRows == 3
\* rows per insert batch of import_csv / import_csv_pandas (100000 in the source)
BatchRows == 2
\* batches between two intermediate commits of an importer (10 in the source)
CommitEvery == 1
\* data rows and chunk sizes of SpecChunk, where chunk_csv is applied alone
MaxSplitRows == 11
MaxSplitSize == 5
\* rows of the file and worker threads of import_table_parallel (SpecTurbo)
MaxTotalRows == 7
MaxWorkers == 3

(***************************************************************************)
(* Values.  A nullable column holds None or Some(v).                       *)
(***************************************************************************)
None == <<>>
Some(v) == <<v>>

\* The (table_name, dataset_date) units: one target table, two dataset dates.
JobKeys == {"d1", "d2"}

ImportMethods == {"standard", "pandas", "copy"}

\* Text of the id field of a CSV row: two integers, the empty field, a
\* non-numeric text.
IdTexts == {"1", "2", "", "x"}

\* int(value) of import_csv raises ValueError unless the text is an integer.
IsIntText(s) == s \in {"1", "2"}

IntOf(s) == IF s = "1" THEN 1 ELSE 2

\* Primary keys the target table can hold.
Keys == {IntOf(s) : s \in {t \in IdTexts : IsIntText(t)}}

\* A CSV data row: the text of its id field, and how many fields it has more
\* than the header (len(row) - len(header)).
Row(id, extra) == [id |-> id, extra |-> extra]

RowValues == {Row("1", 0), Row("2", 0), Row("1", 1), Row("x", 0), Row("", 0)}

\* a data row import_csv is to skip: its width differs from the header's or
\* its id is no integer
Malformed(r) == r.extra # 0 \/ ~IsIntText(r.id)

WellFormed(r) == ~Malformed(r)

RECURSIVE SeqsUpTo(_, _)
SeqsUpTo(S, n) ==
    IF n = 0 THEN {<<>>}
    ELSE LET shorter == SeqsUpTo(S, n - 1)
         IN  shorter \cup {Append(s, x) : s \in {t \in shorter : Len(t) = n - 1}, x \in S}

RECURSIVE SumSeq(_)
SumSeq(s) == IF s = <<>> THEN 0 ELSE Head(s) + SumSeq(Tail(s))

(***************************************************************************)
(* chunk_csv: the row loop of the splitter.  The result is the sequence of *)
(* chunks in the order they are written; each is both the chunk file       *)
(* (rows) and the arguments of _create_chunk_progress_record.              *)
(***************************************************************************)
\* a splitter whose start_row is one row early
NewChunk_early(chunk_num, rows, total_rows) ==
    [chunk_number |-> chunk_num,
     rows         |-> rows,
     start_row    |-> total_rows - Len(rows),
     end_row      |-> total_rows,
     row_count    |-> Len(rows)]

NewChunk(chunk_num, rows, total_rows) ==
    [chunk_number |-> chunk_num,
     rows         |-> rows,
     start_row    |-> total_rows - Len(rows) + 1,
     end_row      |-> total_rows,
     row_count    |-> Len(rows)]

RECURSIVE chunk_csv_loop(_, _, _, _, _, _)
chunk_csv_loop(rows, chunk_size, total_rows, current_chunk_rows, chunk_num, out) ==
    IF total_rows = Len(rows)
    THEN \* "Write remaining rows as final chunk"
         IF current_chunk_rows # <<>>
         THEN Append(out, NewChunk(chunk_num + 1, current_chunk_rows, total_rows))
         ELSE out
    ELSE LET total == total_rows + 1
             cur   == Append(current_chunk_rows, rows[total])
         IN  IF Len(cur) >= chunk_size
             THEN chunk_csv_loop(rows, chunk_size, total, <<>>, chunk_num + 1,
                                 Append(out, NewChunk(chunk_num + 1, cur, total)))
             ELSE chunk_csv_loop(rows, chunk_size, total, cur, chunk_num, out)

\* a splitter that flushes only when the chunk has grown past chunk_size
chunk_csv_late(rows, chunk_size) == chunk_csv_loop(rows, chunk_size + 1, 0, <<>>, 0, <<>>)

chunk_csv(rows, chunk_size) == chunk_csv_loop(rows, chunk_size, 0, <<>>, 0, <<>>)

(***************************************************************************)
(* The target table: every model table has an integer primary key id.     *)
(* The table is kept as the number of rows per key, so that a lost        *)
(* conflict clause shows as a second row of the same key.                 *)
(***************************************************************************)
EmptyTable == [k \in Keys |-> 0]

\* SELECT COUNT(*) FROM table
CountRows(table) ==
    LET RECURSIVE Sum(_)
        Sum(S) == IF S = {} THEN 0
                  ELSE LET k == CHOOSE x \in S : TRUE IN table[k] + Sum(S \ {k})
    IN  Sum(Keys)

KeysOf(table) == {k \in Keys : table[k] > 0}

\* an insert without the conflict clause
InsertRow_plain(table, key) == [table EXCEPT ![key] = @ + 1]

\* INSERT ... ON CONFLICT (id) DO NOTHING of one row
InsertRow(table, key) == [table EXCEPT ![key] = IF @ = 0 THEN 1 ELSE @]

\* session.execute(insert_stmt, chunk_rows): the rows of one batch, in order
RECURSIVE InsertBatch(_, _)
InsertBatch(table, ids) ==
    IF ids = <<>> THEN table
    ELSE InsertBatch(InsertRow(table, Head(ids)), Tail(ids))

(***************************************************************************)
(* DataImporter.  An importer call is given the rows of the chunk file,    *)
(* the committed target table and the faults of the environment during the *)
(* call: fault (an exception before any row is written: the file cannot be *)
(* opened, a count query fails) and fail_batches (the numbers of the       *)
(* insert statements the database refuses).  It yields                     *)
(*   raised        the call ends with an exception,                        *)
(*   returned      the value it returns otherwise,                         *)
(*   committed     the target table as committed when the call ends,       *)
(*   commit_points the target table at each commit of the call, in order,  *)
(*   submitted     the ids handed to insert statements, in order,          *)
(*   skipped_rows  its local counter of skipped rows,                      *)
(*   batches, failed_batches  insert statements executed / refused.        *)
(***************************************************************************)
Envs(n) == [fault : BOOLEAN, fail_batches : SUBSET (1..n)]

\* number of insert batches a file of n rows can need
BatchesOf(n) == (n + BatchRows - 1) \div BatchRows

\* The database refuses a batch holding a NULL primary key or an id text
\* that is no integer (id = Column(Integer, primary_key=True)).
DBRejects(chunk_rows) ==
    \E i \in 1..Len(chunk_rows) :
        chunk_rows[i] = None \/ ~IsIntText(chunk_rows[i][1])

IdsOf(chunk_rows) == [i \in 1..Len(chunk_rows) |-> IntOf(chunk_rows[i][1])]

ImporterStart(table) ==
    [chunk_rows |-> <<>>, chunk_num |-> 0, skipped_rows |-> 0,
     total_rows_imported |-> 0, view |-> table, committed |-> table,
     commit_points |-> <<>>, submitted |-> <<>>, failed_batches |-> 0]

\* session.commit() inside an importer
ImporterCommit(st) ==
    [st EXCEPT !.committed = st.view,
               !.commit_points = Append(st.commit_points, st.view)]

\* import_csv, one batch: execute the insert; on an exception roll the
\* session back and go on; inside the row loop commit every CommitEvery
\* batches.
import_csv_batch(st, env, in_loop) ==
    LET num    == st.chunk_num + 1
        fails  == num \in env.fail_batches \/ DBRejects(st.chunk_rows)
        after  == [st EXCEPT
                     !.chunk_num = num,
                     !.submitted = st.submitted \o st.chunk_rows,
                     !.view = IF fails THEN st.committed
                              ELSE InsertBatch(st.view, IdsOf(st.chunk_rows)),
                     !.total_rows_imported =
                         IF fails THEN @ ELSE @ + Len(st.chunk_rows),
                     !.failed_batches = IF fails THEN @ + 1 ELSE @,
                     !.chunk_rows = IF in_loop THEN <<>> ELSE @]
    IN  IF in_loop /\ num % CommitEvery = 0 THEN ImporterCommit(after) ELSE after

\* import_csv, one data row: the width check, the conversion of the empty
\* field to None, the int() check of the id.  None when the row is skipped.
import_csv_row(row) ==
    IF row.extra # 0 THEN [skip |-> TRUE, id |-> None]
    ELSE LET value == IF row.id = "" THEN None ELSE Some(row.id)
         IN  IF value # None /\ ~IsIntText(value[1])
             THEN [skip |-> TRUE, id |-> None]
             ELSE [skip |-> FALSE, id |-> value]

RECURSIVE import_csv_loop(_, _, _, _)
import_csv_loop(rows, i, st, env) ==
    IF i > Len(rows) THEN st
    ELSE LET r == import_csv_row(rows[i])
         IN  IF r.skip
             THEN import_csv_loop(rows, i + 1,
                                  [st EXCEPT !.skipped_rows = @ + 1], env)
             ELSE LET st1 == [st EXCEPT !.chunk_rows = Append(@, r.id)]
                  IN  IF Len(st1.chunk_rows) >= BatchRows
                      THEN import_csv_loop(rows, i + 1,
                                           import_csv_batch(st1, env, TRUE), env)
                      ELSE import_csv_loop(rows, i + 1, st1, env)

ImporterResult(st, raised, returned) ==
    [raised |-> raised, returned |-> returned, committed |-> st.committed,
     commit_points |-> st.commit_points, submitted |-> st.submitted,
     skipped_rows |-> st.skipped_rows, batches |-> st.chunk_num,
     failed_batches |-> st.failed_batches]

\* DataImporter.import_csv ("standard")
import_csv(rows, table, env) ==
    IF env.fault THEN ImporterResult(ImporterStart(table), TRUE, 0)
    ELSE LET looped == import_csv_loop(rows, 1, ImporterStart(table), env)
             rest   == IF looped.chunk_rows # <<>>
                       THEN import_csv_batch(looped, env, FALSE)
                       ELSE looped
             final  == ImporterCommit(rest)
         IN  ImporterResult(final, FALSE,
                            CountRows(final.committed) - CountRows(table))

\* pandas.read_csv(on_bad_lines='warn', na_values=['', ...]): a line with
\* more fields than the header is dropped, an empty field is read as NaN and
\* replaced by None; no check of the id.
pandas_rows(rows) ==
    LET kept == SelectSeq(rows, LAMBDA r : r.extra = 0)
    IN  [i \in 1..Len(kept) |->
            IF kept[i].id = "" THEN None ELSE Some(kept[i].id)]

\* import_csv_pandas, one chunk of the data frame: on an exception roll
\* back, count the rows as skipped and continue (the commit is passed over).
import_csv_pandas_batch(st, chunk_rows, env) ==
    LET num   == st.chunk_num + 1
        fails == num \in env.fail_batches \/ DBRejects(chunk_rows)
        after == [st EXCEPT
                    !.chunk_num = num,
                    !.submitted = st.submitted \o chunk_rows,
                    !.view = IF fails THEN st.committed
                             ELSE InsertBatch(st.view, IdsOf(chunk_rows)),
                    !.total_rows_imported = IF fails THEN @ ELSE @ + Len(chunk_rows),
                    !.skipped_rows = IF fails THEN @ + Len(chunk_rows) ELSE @,
                    !.failed_batches = IF fails THEN @ + 1 ELSE @]
    IN  IF ~fails /\ num % CommitEvery = 0 THEN ImporterCommit(after) ELSE after

RECURSIVE import_csv_pandas_loop(_, _, _)
import_csv_pandas_loop(parsed, st, env) ==
    IF parsed = <<>> THEN st
    ELSE LET n == IF Len(parsed) < BatchRows THEN Len(parsed) ELSE BatchRows
         IN  import_csv_pandas_loop(
                 SubSeq(parsed, n + 1, Len(parsed)),
                 import_csv_pandas_batch(st, SubSeq(parsed, 1, n), env), env)

\* DataImporter.import_csv_pandas ("pandas"): returns total_imported
import_csv_pandas(rows, table, env) ==
    IF env.fault THEN ImporterResult(ImporterStart(table), TRUE, 0)
    ELSE LET looped == import_csv_pandas_loop(pandas_rows(rows),
                                              ImporterStart(table), env)
             final  == ImporterCommit(looped)
         IN  ImporterResult(final, FALSE, final.total_rows_imported)

\* COPY temp FROM STDIN (FORMAT CSV) takes the file as it is: a row of the
\* wrong width, a non-integer id or an empty (NULL) id ends the statement
\* with an error.
copy_rows(rows) == [i \in 1..Len(rows) |-> IF rows[i].id = "" THEN None ELSE Some(rows[i].id)]

CopyRejects(rows) == (\E i \in 1..Len(rows) : rows[i].extra # 0) \/ DBRejects(copy_rows(rows))

\* DataImporter.import_csv_with_postgres_copy ("copy"): staging table,
\* INSERT ... SELECT ... ON CONFLICT (id) DO NOTHING, commit; on any
\* exception session.rollback() and raise.
import_csv_with_postgres_copy(rows, table, env) ==
    LET st0 == ImporterStart(table)
    IN  IF env.fault THEN ImporterResult(st0, TRUE, 0)
        ELSE IF 1 \in env.fail_batches \/ CopyRejects(rows)
        THEN ImporterResult([st0 EXCEPT !.chunk_num = 1, !.failed_batches = 1,
                                        !.submitted = copy_rows(rows)],
                            TRUE, 0)
        ELSE LET final == ImporterCommit(
                              [st0 EXCEPT !.chunk_num = 1,
                                          !.submitted = copy_rows(rows),
                                          !.view = InsertBatch(table, IdsOf(copy_rows(rows)))])
             IN  ImporterResult(final, FALSE,
                                CountRows(final.committed) - CountRows(table))

\* the importer import_chunked calls for import_method
Importer(import_method, rows, table, env) ==
    IF import_method = "pandas" THEN import_csv_pandas(rows, table, env)
    ELSE IF import_method = "copy" THEN import_csv_with_postgres_copy(rows, table, env)
    ELSE import_csv(rows, table, env)


(***************************************************************************)
(* The progress ledger: CSVChunkProgress records.  table_name and          *)
(* dataset_date are the field key.  A chunk file is named by its table,    *)
(* date and chunk number ("{table}-{date}.chunk_{NNNN}.csv").              *)
(***************************************************************************)
ChunkFilename(key, chunk_num) == <<key, chunk_num>>

Now == Some("now")

\* _create_chunk_progress_record, with the column defaults of the model
CreateChunkProgressRecord(key, c) ==
    [key |-> key,
     chunk_number |-> c.chunk_number,
     chunk_filename |-> ChunkFilename(key, c.chunk_number),
     chunk_start_row |-> c.start_row,
     chunk_end_row |-> c.end_row,
     chunk_row_count |-> c.row_count,
     status |-> "pending",
     rows_imported |-> Some(0),
     rows_skipped |-> Some(0),
     started_at |-> None,
     completed_at |-> None,
     duration_seconds |-> None,
     error_message |-> None,
     retry_count |-> 0,
     import_method |-> None]

Indices(key) == {i \in 1..Len(ledger) : ledger[i].key = key}

\* the indices in S in increasing order
RECURSIVE Ascending(_)
Ascending(S) ==
    IF S = {} THEN <<>>
    ELSE LET m == CHOOSE x \in S : \A y \in S : x <= y
         IN  <<m>> \o Ascending(S \ {m})

\* session.query(CSVChunkProgress).filter(table_name, dataset_date)
\*        .order_by(chunk_number).all(): the ledger positions of the job's
\* records by chunk_number (records of one number in insertion order).
RECURSIVE QueryFrom(_, _)
QueryFrom(key, n) ==
    IF \A i \in Indices(key) : ledger[i].chunk_number < n THEN <<>>
    ELSE Ascending({i \in Indices(key) : ledger[i].chunk_number = n})
           \o QueryFrom(key, n + 1)

QueryChunks(key) == QueryFrom(key, 1)

\* a selection that ignores resume
ChunksToProcess_all(chunk_records, resume) == chunk_records

\* a selection that, on resume, takes up the pending chunks only
ChunksToProcess_pending(chunk_records, resume) ==
    IF resume
    THEN SelectSeq(chunk_records, LAMBDA i : ledger[i].status = "pending")
    ELSE chunk_records

\* "Filter chunks to process"
ChunksToProcess(chunk_records, resume) ==
    IF resume
    THEN SelectSeq(chunk_records, LAMBDA i : ledger[i].status # "completed")
    ELSE chunk_records

NoResults ==
    [total_chunks |-> 0, processed_chunks |-> 0, successful_chunks |-> 0,
     failed_chunks |-> 0, skipped_chunks |-> 0, total_rows_imported |-> 0,
     total_rows_skipped |-> 0, errors |-> <<>>]

NoRun ==
    [key |-> "", resume |-> FALSE, max_retries |-> 0, import_method |-> "",
     before |-> <<>>, chunks_to_process |-> <<>>, pos |-> 0, attempt |-> 0,
     rows_imported |-> 0, results |-> NoResults]

NoLast ==
    [op |-> "", key |-> "", raised |-> FALSE, count |-> 0, results |-> NoResults,
     error |-> "", written |-> 0, delete_files |-> FALSE]

\* History of the run under way, kept for the properties only: per chunk
\* taken up by the loop, the importer calls made for it, the calls in which
\* every insert statement was refused, whether its file existed when it was
\* taken up and whether it was marked processing, and of its latest
\* importer call the insert statements refused (failed) and the rows the
\* call added to the committed target table (added); clean while no file
\* was missing and no importer call failed.
NoHist == [taken |-> <<>>, clean |-> TRUE]

Taken(i) == \E j \in 1..Len(hist.taken) : hist.taken[j].chunk = i

TakenOf(i) == hist.taken[CHOOSE j \in 1..Len(hist.taken) : hist.taken[j].chunk = i]

UpdateTaken(i, field, value) ==
    [j \in 1..Len(hist.taken) |->
        IF hist.taken[j].chunk = i
        THEN [hist.taken[j] EXCEPT ![field] = value] ELSE hist.taken[j]]

(***************************************************************************)
(* Initial state: nothing chunked, empty target table, no run.             *)
(***************************************************************************)
NoSplit == [rows |-> 0, chunk_size |-> 1, done |-> FALSE, chunks |-> <<>>, records |-> <<>>]

NoFaults == [fault |-> FALSE, fail_batches |-> {}]

NoCall == ImporterResult(ImporterStart(EmptyTable), FALSE, 0)

NoImport == [rows |-> <<>>, start |-> EmptyTable, import_method |-> "", stage |-> 0,
             env1 |-> NoFaults, env2 |-> NoFaults, first |-> NoCall, second |-> NoCall]

\* no second process runs import_chunked
NoPeer == [pc |-> "idle", run |-> NoRun, last |-> NoLast, hist |-> NoHist]

\* import_table_parallel has not been called
NoTurbo == [total_rows |-> 0, num_workers |-> 0, workers |-> <<>>, sessions |-> 0]

Init ==
    /\ ledger = <<>>
    /\ files = <<>>
    /\ target = EmptyTable
    /\ pc = "idle"
    /\ run = NoRun
    /\ last = NoLast
    /\ hist = NoHist
    /\ ops = 0
    /\ cs = NoSplit
    /\ im = NoImport
    /\ peer = NoPeer
    /\ turbo = NoTurbo

FileExists(name) == name \in DOMAIN files

\* an operation is invoked: the budget of the behaviour
Invoke == ops < MaxOps /\ ops' = ops + 1

\* the files fs after _write_chunk of every chunk of one chunk_csv call
WriteChunks(fs, key, chunks) ==
    LET names == {ChunkFilename(key, chunks[j].chunk_number) : j \in 1..Len(chunks)}
    IN  [n \in DOMAIN fs \cup names |->
            IF n \in names
            THEN chunks[CHOOSE j \in 1..Len(chunks) :
                            ChunkFilename(key, chunks[j].chunk_number) = n].rows
            ELSE fs[n]]

\* the records one chunk_csv call adds to the session
ChunkRecords(key, chunks) ==
    [j \in 1..Len(chunks) |-> CreateChunkProgressRecord(key, chunks[j])]

\* CSVChunkManager.chunk_csv with a session: the chunk files are written,
\* one record per chunk is added, and the records are committed together.
ChunkCsv(key, rows, chunk_size) ==
    LET chunks == chunk_csv(rows, chunk_size)
    IN  /\ pc = "idle"
        /\ Invoke
        /\ Len(ledger) + Len(chunks) <= MaxLedger
        /\ files' = WriteChunks(files, key, chunks)
        /\ ledger' = ledger \o ChunkRecords(key, chunks)
        /\ last' = [NoLast EXCEPT !.op = "chunk_csv", !.key = key,
                                  !.count = Len(chunks)]
        /\ pc' = "done"
        /\ UNCHANGED <<target, run, hist, cs, im, peer, turbo>>

\* chunk_csv, "if not csv_path.exists(): raise FileNotFoundError": the source
\* file is missing, nothing has been created
ChunkCsvMissing(key) ==
    /\ pc = "idle"
    /\ Invoke
    /\ last' = [NoLast EXCEPT !.op = "chunk_csv", !.key = key, !.raised = TRUE,
                              !.error = "FileNotFoundError"]
    /\ pc' = "done"
    /\ UNCHANGED <<ledger, files, target, run, hist, cs, im, peer, turbo>>

\* a rollback that flushes the records added to the session
rollback_flush(committed, added) == committed \o added

\* db_session.rollback(): the records added to the session since the last
\* commit are dropped
rollback(committed, added) == committed

\* CSVChunkManager.chunk_csv failing part-way (a read error of the source,
\* a write error of a chunk file, a failure of the commit): the first
\* `written` chunk files are on disk and their records added to the session;
\* with `partial` the chunk file that was being written is left short of
\* its last row; the except branch rolls back and raises again.
ChunkCsvFails(key, rows, chunk_size, written, partial) ==
    LET chunks == chunk_csv(rows, chunk_size)
        done == SubSeq(chunks, 1, written)
        cut == [chunks[written + 1] EXCEPT !.rows = SubSeq(@, 1, Len(@) - 1)]
    IN  /\ pc = "idle"
        /\ Invoke
        /\ written <= Len(chunks)
        /\ partial => written < Len(chunks)
        /\ files' = IF partial
                    THEN WriteChunks(WriteChunks(files, key, done), key, <<cut>>)
                    ELSE WriteChunks(files, key, done)
        /\ ledger' = rollback(ledger, ChunkRecords(key, done))
        /\ last' = [NoLast EXCEPT !.op = "chunk_csv", !.key = key, !.raised = TRUE,
                                  !.error = "Exception", !.written = written]
        /\ pc' = "done"
        /\ UNCHANGED <<target, run, hist, cs, im, peer, turbo>>

\* import_chunked up to the loop: query, "No chunks found", selection,
\* the results dictionary.
ImportStart(key, resume, max_retries, import_method) ==
    LET chunk_records == QueryChunks(key)
        chunks_to_process == ChunksToProcess(chunk_records, resume)
        total_chunks == Len(chunk_records)
        skipped_count == total_chunks - Len(chunks_to_process)
    IN  /\ pc = "idle"
        /\ Invoke
        /\ IF chunk_records = <<>>
           THEN /\ last' = [NoLast EXCEPT !.op = "import_chunked", !.key = key,
                                          !.raised = TRUE]
                /\ pc' = "done"
                /\ UNCHANGED <<run, hist>>
           ELSE /\ run' = [NoRun EXCEPT
                             !.key = key, !.resume = resume,
                             !.max_retries = max_retries,
                             !.import_method = import_method,
                             !.before = ledger,
                             !.chunks_to_process = chunks_to_process,
                             !.pos = 1,
                             !.results = [NoResults EXCEPT
                                 !.total_chunks = total_chunks,
                                 !.skipped_chunks = IF resume THEN skipped_count ELSE 0]]
                /\ pc' = "loop"
                /\ hist' = NoHist
                /\ last' = NoLast
        /\ UNCHANGED <<ledger, files, target, cs, im, peer, turbo>>

Current == run.chunks_to_process[run.pos]

InLoop == pc = "loop" /\ run.pos <= Len(run.chunks_to_process)

\* a failure that records the message and leaves the status as it is
MarkChunkFailed_message(record, error_msg) ==
    [record EXCEPT !.completed_at = Now, !.error_message = Some(error_msg)]

\* a failure that sets the status and keeps the message column as it is
MarkChunkFailed_silent(record, error_msg) ==
    [record EXCEPT !.status = "failed", !.completed_at = Now]

\* _mark_chunk_failed
MarkChunkFailed(record, error_msg) ==
    [record EXCEPT !.status = "failed", !.completed_at = Now,
                   !.error_message = Some(error_msg)]

\* the loop body when chunk_path.exists() is false
ChunkFileMissing ==
    /\ InLoop
    /\ ~FileExists(ledger[Current].chunk_filename)
    /\ ledger' = [ledger EXCEPT ![Current] = MarkChunkFailed(@, "Chunk file not found")]
    /\ run' = [run EXCEPT
                 !.pos = @ + 1,
                 !.results.failed_chunks = @ + 1,
                 !.results.errors = Append(@, [chunk |-> ledger[Current].chunk_number,
                                               attempts |-> None])]
    /\ hist' = [hist EXCEPT
                  !.taken = Append(@, [chunk |-> Current, exists |-> FALSE, calls |-> 0,
                                       refused |-> 0, marked |-> 0,
                                       failed |-> 0, added |-> 0]),
                  !.clean = FALSE]
    /\ UNCHANGED <<files, target, pc, last, ops, cs, im, peer, turbo>>

\* a loop over the attempts that runs once when there is none to make
range_once(n) == 0..(IF n <= 0 THEN 0 ELSE n - 1)

\* range(max_retries): the attempts of "for attempt in range(max_retries)",
\* none when max_retries <= 0
range(n) == 0..(n - 1)

\* the loop body when the file exists: "for attempt in range(max_retries)"
\* starts, or has nothing to run and the chunk is counted as processed
TakeChunk ==
    /\ InLoop
    /\ FileExists(ledger[Current].chunk_filename)
    /\ hist' = [hist EXCEPT
                  !.taken = Append(@, [chunk |-> Current, exists |-> TRUE, calls |-> 0,
                                       refused |-> 0, marked |-> 0,
                                       failed |-> 0, added |-> 0])]
    /\ IF range(run.max_retries) = {}
       THEN /\ run' = [run EXCEPT !.pos = @ + 1, !.results.processed_chunks = @ + 1]
            /\ pc' = "loop"
       ELSE /\ run' = [run EXCEPT !.attempt = 0]
            /\ pc' = "mark"
    /\ UNCHANGED <<ledger, files, target, last, ops, cs, im, peer, turbo>>

\* "Mark as processing" and its commit
MarkProcessing ==
    /\ pc = "mark"
    /\ ledger' = [ledger EXCEPT
                    ![Current] = [@ EXCEPT !.status = "processing",
                                           !.started_at = Now,
                                           !.import_method = Some(run.import_method),
                                           !.retry_count = run.attempt]]
    /\ hist' = [hist EXCEPT !.taken = UpdateTaken(Current, "marked", TakenOf(Current).marked + 1)]
    /\ pc' = "import"
    /\ UNCHANGED <<files, target, run, last, ops, cs, im, peer, turbo>>

\* the rows of a chunk file as csv.reader yields them
FileRows(name) == IF FileExists(name) THEN files[name] ELSE <<>>

\* the importer call of one attempt; a file removed since the check makes
\* the importer raise FileNotFoundError
ImportCall(env) ==
    LET name == ledger[Current].chunk_filename
    IN  Importer(run.import_method, FileRows(name), target,
                 IF FileExists(name) THEN env ELSE [env EXCEPT !.fault = TRUE])

\* the except branch of one attempt: the last attempt marks the chunk
\* failed, an earlier one rolls back and retries
AttemptFailed ==
    IF run.attempt = run.max_retries - 1
    THEN /\ ledger' = [ledger EXCEPT ![Current] = MarkChunkFailed(@, "import error")]
         /\ run' = [run EXCEPT
                      !.pos = @ + 1,
                      !.results.failed_chunks = @ + 1,
                      !.results.errors = Append(@, [chunk |-> ledger[Current].chunk_number,
                                                    attempts |-> Some(run.max_retries)]),
                      !.results.processed_chunks = @ + 1]
         /\ pc' = "loop"
    ELSE /\ run' = [run EXCEPT !.attempt = @ + 1]
         /\ pc' = "mark"
         /\ UNCHANGED ledger

\* one attempt's importer call, to its return or its exception
ImportChunk(env) ==
    /\ pc = "import"
    /\ LET res == ImportCall(env)
           t   == TakenOf(Current)
           refused == res.batches >= 1 /\ res.failed_batches = res.batches
       IN  /\ target' = res.committed
           /\ hist' = [hist EXCEPT
                         !.taken = [j \in 1..Len(hist.taken) |->
                                      IF hist.taken[j].chunk = Current
                                      THEN [t EXCEPT !.calls = @ + 1,
                                                     !.refused = IF refused THEN @ + 1 ELSE @,
                                                     !.failed = res.failed_batches,
                                                     !.added = CountRows(res.committed)
                                                                 - CountRows(target)]
                                      ELSE hist.taken[j]],
                         !.clean = @ /\ ~res.raised /\ res.failed_batches = 0]
           /\ IF res.raised
              THEN AttemptFailed
              ELSE /\ run' = [run EXCEPT !.rows_imported = res.returned]
                   /\ pc' = "complete"
                   /\ UNCHANGED ledger
    /\ UNCHANGED <<files, last, ops, cs, im, peer, turbo>>

\* a completion that leaves the error message of an earlier failure
CompletedRecord_message(record, rows_imported) ==
    [record EXCEPT !.status = "completed", !.completed_at = Now,
                   !.duration_seconds = Some(0),
                   !.rows_imported = Some(rows_imported)]

\* "Mark as completed": the fields set on the record
CompletedRecord(record, rows_imported) ==
    [record EXCEPT !.status = "completed", !.completed_at = Now,
                   !.duration_seconds = Some(0),
                   !.rows_imported = Some(rows_imported),
                   !.error_message = None]

\* "Mark as completed" and its commit, then the counters of the results
MarkCompleted ==
    /\ pc = "complete"
    /\ ledger' = [ledger EXCEPT
                    ![Current] = CompletedRecord(@, run.rows_imported)]
    /\ run' = [run EXCEPT
                 !.pos = @ + 1,
                 !.results.successful_chunks = @ + 1,
                 !.results.total_rows_imported = @ + run.rows_imported,
                 !.results.processed_chunks = @ + 1]
    /\ pc' = "loop"
    /\ UNCHANGED <<files, target, last, hist, ops, cs, im, peer, turbo>>

\* "return results"
ImportReturn ==
    /\ pc = "loop"
    /\ run.pos > Len(run.chunks_to_process)
    /\ last' = [NoLast EXCEPT !.op = "import_chunked", !.key = run.key,
                              !.results = run.results]
    /\ pc' = "done"
    /\ UNCHANGED <<ledger, files, target, run, hist, ops, cs, im, peer, turbo>>

\* the caller has the result; the manager is free for the next call
Finish ==
    /\ pc = "done"
    /\ pc' = "idle"
    /\ run' = NoRun
    /\ hist' = NoHist
    /\ last' = NoLast
    /\ UNCHANGED <<ledger, files, target, ops, cs, im, peer, turbo>>

\* The process dies during a run: what is committed stays, the run is gone.
Crash ==
    /\ pc \in {"loop", "mark", "import", "complete"}
    /\ pc' = "idle"
    /\ run' = NoRun
    /\ hist' = NoHist
    /\ last' = NoLast
    /\ UNCHANGED <<ledger, files, target, ops, cs, im, peer, turbo>>

\* The process dies inside an importer call, after one of its commits.
CrashInImport(env) ==
    /\ pc = "import"
    /\ LET res == ImportCall(env)
       IN  \E j \in 1..Len(res.commit_points) : target' = res.commit_points[j]
    /\ pc' = "idle"
    /\ run' = NoRun
    /\ hist' = NoHist
    /\ last' = NoLast
    /\ UNCHANGED <<ledger, files, ops, cs, im, peer, turbo>>

\* a reset that leaves the retry counter
ResetRecord_retries(record) ==
    [record EXCEPT !.status = "pending", !.started_at = None,
                   !.completed_at = None, !.duration_seconds = None,
                   !.rows_imported = Some(0), !.rows_skipped = Some(0),
                   !.error_message = None]

\* CSVChunkManager.reset_chunks
ResetRecord(record) ==
    [record EXCEPT !.status = "pending", !.started_at = None,
                   !.completed_at = None, !.duration_seconds = None,
                   !.rows_imported = Some(0), !.rows_skipped = Some(0),
                   !.error_message = None, !.retry_count = 0]

ResetChunks(key) ==
    /\ pc = "idle"
    /\ Invoke
    /\ ledger' = [i \in 1..Len(ledger) |->
                    IF ledger[i].key = key THEN ResetRecord(ledger[i]) ELSE ledger[i]]
    /\ last' = [NoLast EXCEPT !.op = "reset_chunks", !.key = key,
                              !.count = Cardinality(Indices(key))]
    /\ pc' = "done"
    /\ UNCHANGED <<files, target, run, hist, cs, im, peer, turbo>>

\* a delete that removes the chunk directory with all it holds
UnlinkChunks_dir(fs, names) ==
    [n \in {m \in DOMAIN fs : \A g \in names : m[1] # g[1]} |-> fs[n]]

\* delete_chunks, "chunk_path.unlink()" for the file of each record that
\* exists; the rmdir that follows fails on a directory that is not empty
\* and its OSError is ignored
UnlinkChunks(fs, names) == [n \in DOMAIN fs \ names |-> fs[n]]

\* CSVChunkManager.get_chunks: the records of the job by chunk_number
get_chunks(key) ==
    LET chunks == QueryChunks(key)
    IN  [j \in 1..Len(chunks) |-> ledger[chunks[j]]]

\* CSVChunkManager.delete_chunks
DeleteChunks(key, delete_files) ==
    LET gone == {ledger[i].chunk_filename : i \in Indices(key)}
        keep == Ascending((1..Len(ledger)) \ Indices(key))
    IN  /\ pc = "idle"
        /\ Invoke
        /\ files' = IF delete_files
                    THEN UnlinkChunks(files, gone)
                    ELSE files
        /\ ledger' = [j \in 1..Len(keep) |-> ledger[keep[j]]]
        /\ last' = [NoLast EXCEPT !.op = "delete_chunks", !.key = key,
                                  !.count = Cardinality(Indices(key)),
                                  !.delete_files = delete_files]
        /\ pc' = "done"
        /\ UNCHANGED <<target, run, hist, cs, im, peer, turbo>>

\* A chunk file disappears from the storage (not an operation of the system).
RemoveFile(name) ==
    /\ pc = "idle"
    /\ Invoke
    /\ FileExists(name)
    /\ \E i \in 1..Len(ledger) : ledger[i].chunk_filename = name
    /\ files' = [n \in DOMAIN files \ {name} |-> files[n]]
    /\ UNCHANGED <<ledger, target, pc, run, last, hist, cs, im, peer, turbo>>

\* A field of text: x, a run of n double quotes, y.
Quoted(n) == IF n = 3 THEN "x\"\"\"y" ELSE "x\"y"

\* the run of double quotes in the text of the id field
QuoteRun(text) == IF text = Quoted(3) THEN 3 ELSE IF text = Quoted(1) THEN 1 ELSE 0

\* fix_csv_line on the line of a row.  csv.writer wrote the field quoted
\* with every double quote doubled, so a run of n quotes in the field is a
\* run of 2n in the line; re.sub(r'"{5,}', '""', line) replaces a run of 5
\* or more by two, which reads back as one quote.  (No field of the model
\* holds a backslash, the subject of the second pattern.)
fix_csv_line(row) ==
    IF 2 * QuoteRun(row.id) >= 5 THEN [row EXCEPT !.id = Quoted(1)] ELSE row

\* fix_chunk_file: every data line fixed, the file written back in place
fix_chunk_file(rows) == [i \in 1..Len(rows) |-> fix_csv_line(rows[i])]

\* the fix_chunks endpoint: every *.csv file of the chunk directory of the
\* job is fixed in place; 404 when there is none
FixChunks(key) ==
    LET chunk_files == {n \in DOMAIN files : n[1] = key}
    IN  /\ pc = "idle"
        /\ Invoke
        /\ IF chunk_files = {}
           THEN /\ last' = [NoLast EXCEPT !.op = "fix_chunks", !.key = key,
                                          !.raised = TRUE, !.error = "HTTPException"]
                /\ UNCHANGED files
           ELSE /\ files' = [n \in DOMAIN files |->
                               IF n \in chunk_files THEN fix_chunk_file(files[n])
                               ELSE files[n]]
                /\ last' = [NoLast EXCEPT !.op = "fix_chunks", !.key = key,
                                          !.count = Cardinality(chunk_files)]
        /\ pc' = "done"
        /\ UNCHANGED <<ledger, target, run, hist, cs, im, peer, turbo>>

\* The source files handed to chunk_csv: up to MaxRows rows of a file
\* of well-formed rows with ids 1, 2, 1, 2, ... and of a file whose even rows
\* have one field too many.
SourceRow(kind, i) ==
    IF i % 2 = 1 THEN Row("1", 0)
    ELSE IF kind = "good" THEN Row("2", 0) ELSE Row("1", 1)

SourceFiles ==
    {[i \in 1..n |-> SourceRow(kind, i)] : n \in 0..MaxRows, kind \in {"good", "bad"}}

Next ==
    \/ \E key \in JobKeys, rows \in SourceFiles, chunk_size \in 1..MaxChunkSize :
          ChunkCsv(key, rows, chunk_size)
    \/ \E key \in JobKeys, resume \in BOOLEAN, max_retries \in 0..MaxRetries,
          import_method \in ImportMethods :
          ImportStart(key, resume, max_retries, import_method)
    \/ ChunkFileMissing
    \/ TakeChunk
    \/ MarkProcessing
    \/ \E env \in Envs(BatchesOf(MaxRows)) : ImportChunk(env)
    \/ MarkCompleted
    \/ ImportReturn
    \/ Finish
    \/ Crash
    \/ \E env \in Envs(BatchesOf(MaxRows)) : CrashInImport(env)
    \/ \E key \in JobKeys : ResetChunks(key)
    \/ \E key \in JobKeys, delete_files \in BOOLEAN : DeleteChunks(key, delete_files)
    \/ \E name \in DOMAIN files : RemoveFile(name)

Spec == Init /\ [][Next]_vars

(***************************************************************************)
(* SpecRun: the import runs of one job.  The job is chunked once, its      *)
(* chunk files may be lost, import_chunked is run with any arguments, and  *)
(* a run may be cut short by a crash; no reset_chunks, no delete_chunks.   *)
(***************************************************************************)
NextRun ==
    \/ \E rows \in SourceFiles, chunk_size \in 1..MaxChunkSize :
          Indices("d1") = {} /\ ChunkCsv("d1", rows, chunk_size)
    \/ \E resume \in BOOLEAN, max_retries \in (-1)..MaxRetries,
          import_method \in ImportMethods :
          ImportStart("d1", resume, max_retries, import_method)
    \/ ChunkFileMissing
    \/ TakeChunk
    \/ MarkProcessing
    \/ \E env \in Envs(BatchesOf(MaxRows)) : ImportChunk(env)
    \/ MarkCompleted
    \/ ImportReturn
    \/ Finish
    \/ Crash
    \/ \E env \in Envs(BatchesOf(MaxRows)) : CrashInImport(env)
    \/ \E name \in DOMAIN files : RemoveFile(name)

SpecRun == Init /\ [][NextRun]_vars

(***************************************************************************)
(* SpecLedger: two jobs side by side.  Both have been chunked from one     *)
(* source of MaxRows rows; then import_chunked runs with the default       *)
(* arguments (resume, the standard method; possibly cut short by a crash)  *)
(* and reset_chunks calls on either job follow each other.                 *)
(***************************************************************************)
FullSources == {rows \in SourceFiles : Len(rows) = MaxRows}

InitLedger ==
    /\ \E rows \in FullSources, size1 \in 1..MaxChunkSize, size2 \in 1..MaxChunkSize :
          LET chunks1 == chunk_csv(rows, size1)
              chunks2 == chunk_csv(rows, size2)
          IN  /\ ledger = ChunkRecords("d1", chunks1) \o ChunkRecords("d2", chunks2)
              /\ files = WriteChunks(WriteChunks(<<>>, "d1", chunks1), "d2", chunks2)
    /\ target = EmptyTable
    /\ pc = "idle"
    /\ run = NoRun
    /\ last = NoLast
    /\ hist = NoHist
    /\ ops = 0
    /\ cs = NoSplit
    /\ im = NoImport
    /\ peer = NoPeer
    /\ turbo = NoTurbo

NextLedger ==
    \/ \E key \in JobKeys : ImportStart(key, TRUE, MaxRetries, "standard")
    \/ TakeChunk
    \/ MarkProcessing
    \/ \E env \in Envs(BatchesOf(MaxRows)) : ImportChunk(env)
    \/ MarkCompleted
    \/ ImportReturn
    \/ Finish
    \/ Crash
    \/ \E key \in JobKeys : ResetChunks(key)

SpecLedger == InitLedger /\ [][NextLedger]_vars

\* the step is a reset_chunks call
IsReset == pc = "idle" /\ pc' = "done" /\ last'.op = "reset_chunks"

\* C9: reset_chunks(table, date) leaves every chunk of the job pending with
\* rows_imported, rows_skipped and retry_count 0 and started_at,
\* completed_at, duration_seconds and error_message null, keeps its
\* chunk_number, chunk_filename, chunk_start_row, chunk_end_row and
\* chunk_row_count, leaves the chunks of other jobs and the chunk files
\* unchanged, and returns the number of chunks it reset.
C9_ResetRestoresPending ==
    [][IsReset =>
          /\ Len(ledger') = Len(ledger)
          /\ \A i \in 1..Len(ledger) :
                IF ledger[i].key = last'.key
                THEN /\ ledger'[i].status = "pending"
                     /\ ledger'[i].rows_imported = Some(0)
                     /\ ledger'[i].rows_skipped = Some(0)
                     /\ ledger'[i].retry_count = 0
                     /\ ledger'[i].started_at = None
                     /\ ledger'[i].completed_at = None
                     /\ ledger'[i].duration_seconds = None
                     /\ ledger'[i].error_message = None
                     /\ ledger'[i].key = ledger[i].key
                     /\ ledger'[i].chunk_number = ledger[i].chunk_number
                     /\ ledger'[i].chunk_filename = ledger[i].chunk_filename
                     /\ ledger'[i].chunk_start_row = ledger[i].chunk_start_row
                     /\ ledger'[i].chunk_end_row = ledger[i].chunk_end_row
                     /\ ledger'[i].chunk_row_count = ledger[i].chunk_row_count
                ELSE ledger'[i] = ledger[i]
          /\ files' = files
          /\ last'.count = Cardinality({i \in 1..Len(ledger) : ledger[i].key = last'.key})
      ]_vars

\* reset_chunks has reset a job of two chunks that a run had worked on
\* (the records still name its import method) while the other job holds a
\* chunk that is not pending
C9_Witness ==
    /\ pc = "done"
    /\ last.op = "reset_chunks"
    /\ last.count = 2
    /\ \E i \in 1..Len(ledger) :
          ledger[i].key = last.key /\ ledger[i].import_method # None
    /\ \E i \in 1..Len(ledger) :
          ledger[i].key # last.key /\ ledger[i].status \in {"completed", "failed", "processing"}

(***************************************************************************)
(* Properties of import_chunked runs (SpecRun).                            *)
(***************************************************************************)
RunPcs == {"loop", "mark", "import", "complete"}

\* import_chunked has returned its results to the caller
Returned == pc = "done" /\ last.op = "import_chunked" /\ ~last.raised

\* a run is under way or has just returned
InRun == pc \in RunPcs \/ Returned

Job == Indices(run.key)

CompletedBefore == {i \in Job : run.before[i].status = "completed"}

NonCompletedBefore == Job \ CompletedBefore

TakenChunks == {hist.taken[j].chunk : j \in 1..Len(hist.taken)}

\* the j-th chunk taken up by the loop has been dealt with
Handled(j) == run.pos > j

\* C1 (amended): one run with resume=true takes up exactly the N-K chunks
\* that were not completed when it started, each once (pending, failed and
\* processing ones alike), and leaves every field of the K completed ones
\* unchanged; a chunk taken up is handed to the importer when its file
\* exists and max_retries >= 1, and is marked failed without an import
\* attempt when its file is missing.
C1_ResumeTakesUpNonCompleted ==
    (InRun /\ run.resume) =>
        /\ TakenChunks \subseteq NonCompletedBefore
        /\ \A i \in CompletedBefore : ledger[i] = run.before[i]
        /\ Returned =>
              /\ TakenChunks = NonCompletedBefore
              /\ Len(hist.taken) = Cardinality(NonCompletedBefore)
              /\ run.results.total_chunks = Cardinality(Job)
              /\ run.results.skipped_chunks = Cardinality(CompletedBefore)
              /\ \A j \in 1..Len(hist.taken) :
                    LET t == hist.taken[j]
                    IN  /\ t.calls >= 1 <=> (t.exists /\ run.max_retries >= 1)
                        /\ ~t.exists => /\ ledger[t.chunk].status = "failed"
                                        /\ ledger[t.chunk].error_message # None

\* a resume run returns over a job that had one chunk completed and one
\* chunk left in processing, and has imported the latter
C1_Witness ==
    /\ Returned
    /\ run.resume
    /\ \E i \in Job : run.before[i].status = "completed"
    /\ \E i \in Job : /\ run.before[i].status = "processing"
                      /\ Taken(i)
                      /\ TakenOf(i).calls >= 1

\* C1 as stated: every chunk that was not completed is attempted (for a
\* retry budget of at least one).
C1_ResumeAttemptsNonCompleted ==
    (Returned /\ run.resume /\ run.max_retries >= 1) =>
        /\ \A i \in NonCompletedBefore : Taken(i) /\ TakenOf(i).calls >= 1
        /\ \A i \in CompletedBefore : ledger[i] = run.before[i]

\* C2: a chunk whose file exists and whose insert statements are all refused
\* on every attempt is attempted exactly max_retries times and then is
\* failed with an error message (for a retry budget of at least one).
C2_RefusedChunkEndsFailed ==
    (InRun /\ run.max_retries >= 1) =>
        \A j \in 1..Len(hist.taken) :
            LET t == hist.taken[j]
            IN  (t.exists /\ Handled(j) /\ t.calls >= 1 /\ t.refused = t.calls) =>
                    /\ t.calls = run.max_retries
                    /\ ledger[t.chunk].status = "failed"
                    /\ ledger[t.chunk].error_message # None

C4_CompletedStaysCompleted ==
    [][(pc \in RunPcs /\ run.resume) =>
          \A i \in 1..Len(ledger) :
              ledger[i].status = "completed" => ledger'[i] = ledger[i]]_vars

\* a resume run, started after a crash left a chunk in processing beside a
\* completed one, is about to complete that chunk
C4_Witness ==
    /\ pc = "complete"
    /\ run.resume
    /\ run.before[Current].status = "processing"
    /\ \E i \in Job : i # Current /\ ledger[i].status = "completed"

\* the wholly importable ids of a chunk file
FileIds(name) ==
    {IntOf(FileRows(name)[k].id) :
        k \in {n \in 1..Len(FileRows(name)) : WellFormed(FileRows(name)[n])}}

\* C5 (amended): a resume=true run with max_retries >= 1 in which every
\* chunk file exists and no importer call fails takes up the chunk a crash
\* left in processing, imports it anew in one attempt (retry_count 0, the
\* whole file), and returns with every chunk of the job completed.
C5_ResumeAfterCrashCompletes ==
    (Returned /\ run.resume /\ hist.clean /\ run.max_retries >= 1) =>
        /\ \A i \in Job : ledger[i].status = "completed"
        /\ \A i \in Job :
              run.before[i].status = "processing" =>
                  /\ Taken(i)
                  /\ TakenOf(i).calls = 1
                  /\ ledger[i].retry_count = 0
                  /\ ledger[i].error_message = None
                  /\ FileIds(ledger[i].chunk_filename) \subseteq KeysOf(target)

\* such a run returns, the chunk left in processing holding rows
C5_Witness ==
    /\ Returned
    /\ run.resume
    /\ hist.clean
    /\ run.max_retries >= 1
    /\ \E i \in Job : /\ run.before[i].status = "processing"
                      /\ FileIds(ledger[i].chunk_filename) # {}
                      /\ ledger[i].status = "completed"

\* C5 as stated: for every retry budget.
C5_ResumeAfterCrashCompletesAlways ==
    (Returned /\ run.resume /\ hist.clean) =>
        \A i \in Job : ledger[i].status = "completed"

\* the row-batched importers (parameterized insert per batch)
BatchedMethods == {"standard", "pandas"}

\* C11: when an insert batch of a chunk is refused in a row-batched
\* importer, the attempt leaves no row of the chunk inserted, the importer
\* call ends with an exception (the chunk is not on its way to completed),
\* and the chunk is not marked completed on that attempt.
C11_BatchFailureSurfaces ==
    (InRun /\ run.import_method \in BatchedMethods) =>
        \A j \in 1..Len(hist.taken) :
            LET t == hist.taken[j]
            IN  (t.calls >= 1 /\ t.failed >= 1) =>
                    /\ t.added = 0
                    /\ ~(pc = "complete" /\ Current = t.chunk)
                    /\ ledger[t.chunk].status # "completed"

\* C12: for each import method, the row count an importer call returns, and
\* that import_chunked stores in rows_imported of the chunk it completes, is
\* the number of rows the call added to the target table (its row count
\* after the call minus its row count before), so a chunk whose rows are
\* already present reports 0.
C12_RowsImportedIsNetNew ==
    InRun =>
        \A j \in 1..Len(hist.taken) :
            LET t == hist.taken[j]
            IN  /\ (pc = "complete" /\ Current = t.chunk) =>
                       run.rows_imported = t.added
                /\ (Handled(j) /\ t.calls >= 1
                        /\ ledger[t.chunk].status = "completed") =>
                       ledger[t.chunk].rows_imported = Some(t.added)

\* the chunks the loop took up and found without a chunk file
MissingTaken == {j \in 1..Len(hist.taken) : ~hist.taken[j].exists}

\* the entries of results.errors of the missing-file branch
MissingErrors ==
    {e \in 1..Len(run.results.errors) : run.results.errors[e].attempts = None}

\* C13: a selected chunk whose chunk file does not exist is marked failed
\* with an error message as soon as the loop takes it up: it is not set to
\* processing in that run, no importer call is made for it, it is counted in
\* failed_chunks with an entry in errors, and the loop goes on to the next
\* chunk (every selected chunk has been taken up when the run returns).
C13_MissingFileFailsAtOnce ==
    InRun =>
        /\ \A j \in MissingTaken :
              LET t == hist.taken[j]
              IN  /\ t.calls = 0
                  /\ t.marked = 0
                  /\ Handled(j)
                  /\ ledger[t.chunk].status = "failed"
                  /\ ledger[t.chunk].error_message = Some("Chunk file not found")
                  /\ \E e \in MissingErrors :
                        run.results.errors[e].chunk = ledger[t.chunk].chunk_number
        /\ Cardinality(MissingErrors) = Cardinality(MissingTaken)
        /\ run.results.failed_chunks = Len(run.results.errors)
        /\ Returned => Len(hist.taken) = Len(run.chunks_to_process)

\* a run returns after it found the file of its first chunk missing, marked
\* the chunk failed, and went on to import its second chunk
C13_Witness ==
    /\ Returned
    /\ Len(hist.taken) = 2
    /\ ~hist.taken[1].exists
    /\ ledger[hist.taken[1].chunk].status = "failed"
    /\ run.results.failed_chunks = 1
    /\ hist.taken[2].exists
    /\ hist.taken[2].calls >= 1
    /\ ledger[hist.taken[2].chunk].status = "completed"

\* a caller that looks at successful_chunks first
import_chunks_status_strict(results) ==
    IF results.successful_chunks = 0 THEN "failed"
    ELSE IF results.failed_chunks = 0 THEN "completed"
    ELSE "partial"

\* the import route (api/routes/chunk_management.py, import_chunks):
\* "Determine overall status" of the results of import_chunked
import_chunks_status(results) ==
    IF results.failed_chunks = 0 THEN "completed"
    ELSE IF results.successful_chunks > 0 THEN "partial"
    ELSE "failed"

\* the chunks a run took up whose record has the status when it returns
TakenWithStatus(status) ==
    {j \in 1..Len(hist.taken) : ledger[hist.taken[j].chunk].status = status}

\* C14 (amended): the overall status of a returned result is decided in this
\* order: completed exactly when failed_chunks is zero (also when no chunk
\* succeeded, as in a resume run that finds every chunk completed), partial
\* exactly when successful_chunks > 0 and failed_chunks > 0, failed exactly
\* when successful_chunks is zero and failed_chunks > 0; for max_retries >= 1
\* the two counters are the numbers of chunks the run left completed and
\* failed.
C14_OverallStatusByPrecedence ==
    Returned =>
        LET r == last.results
            s == import_chunks_status(r)
        IN  /\ s = "completed" <=> r.failed_chunks = 0
            /\ s = "partial" <=> (r.successful_chunks > 0 /\ r.failed_chunks > 0)
            /\ s = "failed" <=> (r.successful_chunks = 0 /\ r.failed_chunks > 0)
            /\ run.max_retries >= 1 =>
                  /\ r.successful_chunks = Cardinality(TakenWithStatus("completed"))
                  /\ r.failed_chunks = Cardinality(TakenWithStatus("failed"))

\* a resume run with max_retries >= 1 returns over a job whose chunks were
\* all completed: none succeeded, none failed, and the caller is told
\* completed
C14_Witness ==
    /\ Returned
    /\ run.resume
    /\ run.max_retries >= 1
    /\ last.results.total_chunks >= 1
    /\ last.results.skipped_chunks = last.results.total_chunks
    /\ last.results.successful_chunks = 0
    /\ last.results.failed_chunks = 0
    /\ import_chunks_status(last.results) = "completed"

\* C14 as stated: all three rules at once, for the retry budgets the route
\* accepts (max_retries >= 1).
C14_OverallStatusAllRules ==
    (Returned /\ run.max_retries >= 1) =>
        LET r == last.results
            s == import_chunks_status(r)
        IN  /\ r.failed_chunks = 0 => s = "completed"
            /\ (r.successful_chunks > 0 /\ r.failed_chunks > 0) => s = "partial"
            /\ r.successful_chunks = 0 => s = "failed"

\* C19: while no reset_chunks intervenes (SpecRun has none), the
\* retry_count of a chunk never decreases: the first attempt a run makes on a
\* chunk leaves it as it was when the run started, every retry after a
\* failed attempt adds one, and no other step changes it.
C19_RetryCountNeverDecreases ==
    InRun =>
        \A i \in Job :
            LET before == run.before[i].retry_count
            IN  /\ ledger[i].retry_count >= before
                /\ ledger[i].retry_count =
                      IF Taken(i) /\ TakenOf(i).marked >= 1
                      THEN before + TakenOf(i).marked - 1
                      ELSE before

(***************************************************************************)
(* get_progress_summary: a read of the ledger, which a caller can make at  *)
(* any moment, between the commits of a run included.                      *)
(***************************************************************************)
\* the records of the job whose status is the given one
WithStatus(key, status) == {i \in Indices(key) : ledger[i].status = status}

\* sum(c.<field> or 0 for c in chunks) over a nullable column
RECURSIVE SumColumn(_, _)
SumColumn(S, field) ==
    IF S = {} THEN 0
    ELSE LET i == CHOOSE x \in S : TRUE
             v == ledger[i][field]
         IN  (IF v = None THEN 0 ELSE v[1]) + SumColumn(S \ {i}, field)

\* sum(c.chunk_row_count or 0 for c in chunks)
RECURSIVE SumRowCount(_)
SumRowCount(S) ==
    IF S = {} THEN 0
    ELSE LET i == CHOOSE x \in S : TRUE
         IN  ledger[i].chunk_row_count + SumRowCount(S \ {i})

\* a summary that reports completed as soon as one chunk is completed
overall_status_some(total_chunks, completed, failed, processing, pending) ==
    IF completed > 0 THEN "completed"
    ELSE IF failed > 0 THEN "failed"
    ELSE IF processing > 0 THEN "processing"
    ELSE "pending"

\* "Calculate overall status"
overall_status(total_chunks, completed, failed, processing, pending) ==
    IF completed = total_chunks THEN "completed"
    ELSE IF failed > 0 THEN "failed"
    ELSE IF processing > 0 THEN "processing"
    ELSE IF pending > 0 /\ completed > 0 THEN "in_progress"
    ELSE "pending"

\* CSVChunkManager.get_progress_summary
get_progress_summary(key) ==
    LET chunks == Indices(key)
        total_chunks == Cardinality(chunks)
        completed == Cardinality(WithStatus(key, "completed"))
        failed == Cardinality(WithStatus(key, "failed"))
        processing == Cardinality(WithStatus(key, "processing"))
        pending == Cardinality(WithStatus(key, "pending"))
    IN  IF chunks = {}
        THEN [total_chunks |-> 0, status |-> "not_started"]
        ELSE [total_chunks |-> total_chunks,
              completed_chunks |-> completed,
              failed_chunks |-> failed,
              processing_chunks |-> processing,
              pending_chunks |-> pending,
              total_rows |-> SumRowCount(chunks),
              imported_rows |-> SumColumn(chunks, "rows_imported"),
              skipped_rows |-> SumColumn(chunks, "rows_skipped"),
              status |-> overall_status(total_chunks, completed, failed,
                                        processing, pending)]

\* C15: for a job with chunk records, get_progress_summary reports failed
\* exactly when some chunk is failed and none is processing, and reports
\* processing exactly when some chunk is processing and not every chunk is
\* completed.
C15_SummaryFailedAndProcessing ==
    Indices("d1") # {} =>
        LET s == get_progress_summary("d1")
            some_failed == WithStatus("d1", "failed") # {}
            some_processing == WithStatus("d1", "processing") # {}
            all_completed == WithStatus("d1", "completed") = Indices("d1")
        IN  /\ s.status = "failed" <=> (some_failed /\ ~some_processing)
            /\ s.status = "processing" <=> (some_processing /\ ~all_completed)

\* C16: for a job with at least one chunk record, get_progress_summary
\* reports completed if and only if every record of the job is completed;
\* for a job without a record it reports not_started with total_chunks 0.
C16_SummaryCompletedIffAll ==
    LET s == get_progress_summary("d1")
    IN  IF Indices("d1") = {}
        THEN s.status = "not_started" /\ s.total_chunks = 0
        ELSE /\ s.total_chunks = Cardinality(Indices("d1"))
             /\ s.status = "completed" <=>
                    \A i \in Indices("d1") : ledger[i].status = "completed"

\* a run has completed the first of two chunks and works on the second:
\* the summary of the job is not completed
C16_Witness ==
    /\ Cardinality(Indices("d1")) = 2
    /\ WithStatus("d1", "completed") # {}
    /\ WithStatus("d1", "processing") # {}
    /\ get_progress_summary("d1").status # "completed"

(***************************************************************************)
(* Properties of the ledger under the operations of the manager (Spec).    *)
(***************************************************************************)
\* C17: in every reachable ledger state each chunk with status completed
\* has rows_imported set and error_message null.
C17_CompletedHasRowsAndNoError ==
    \A i \in 1..Len(ledger) :
        ledger[i].status = "completed" =>
            /\ ledger[i].rows_imported # None
            /\ ledger[i].error_message = None

\* a chunk that an earlier run had left failed with its error message has
\* been completed by the run under way
C17_Witness ==
    /\ pc \in RunPcs
    /\ \E i \in Job :
          /\ run.before[i].status = "failed"
          /\ run.before[i].error_message # None
          /\ ledger[i].status = "completed"

\* C18: in every reachable ledger state each chunk with status failed has
\* an error_message.
C18_FailedHasError ==
    \A i \in 1..Len(ledger) :
        ledger[i].status = "failed" => ledger[i].error_message # None

\* a chunk failed because every attempt of a run raised, and the other job
\* has been chunked since
C18_Witness ==
    /\ pc = "done"
    /\ last.op = "chunk_csv"
    /\ \E i \in 1..Len(ledger) :
          /\ ledger[i].key # last.key
          /\ ledger[i].status = "failed"
          /\ ledger[i].error_message = Some("import error")
          /\ ledger[i].import_method # None

\* C20: in every reachable ledger state no two chunk records of one
\* (table_name, dataset_date) have the same chunk_number.
C20_ChunkNumberUnique ==
    \A i, j \in 1..Len(ledger) :
        (i # j /\ ledger[i].key = ledger[j].key) =>
            ledger[i].chunk_number # ledger[j].chunk_number

(***************************************************************************)
(* Further properties of import_chunked runs (SpecRun).                    *)
(***************************************************************************)
\* C21: with at most one import_chunked run at a time on the job, at most
\* one chunk of the job has status processing in every reachable ledger
\* state, a run started after a crash in the middle of a chunk included.
C21_AtMostOneProcessing ==
    Cardinality(WithStatus("d1", "processing")) <= 1

\* the rows DataImporter.import_csv skips as malformed when it reads the
\* chunk file (its skipped_rows counter)
SkippedIn(name) == import_csv(FileRows(name), EmptyTable, NoFaults).skipped_rows

\* C25: after import_chunked has completed a chunk in which s rows were
\* skipped as malformed, the chunk's rows_skipped is s, and
\* total_rows_skipped of the result is the sum of it over the chunks the
\* run processed.
C25_RowsSkippedRecorded ==
    (Returned /\ run.import_method = "standard" /\ run.max_retries >= 1
        /\ hist.clean
        /\ \A j \in 1..Len(hist.taken) :
              FileExists(ledger[hist.taken[j].chunk].chunk_filename)) =>
        /\ \A j \in 1..Len(hist.taken) :
              LET i == hist.taken[j].chunk
              IN  ledger[i].status = "completed" =>
                     ledger[i].rows_skipped = Some(SkippedIn(ledger[i].chunk_filename))
        /\ last.results.total_rows_skipped =
              SumSeq([j \in 1..Len(hist.taken) |->
                        SkippedIn(ledger[hist.taken[j].chunk].chunk_filename)])

\* C28: in every result of import_chunked with max_retries >= 1,
\* skipped_chunks + processed_chunks = total_chunks and processed_chunks =
\* successful_chunks + failed_chunks, also when chunk files are missing.
C28_ResultCountsAddUp ==
    (Returned /\ run.max_retries >= 1) =>
        /\ last.results.skipped_chunks + last.results.processed_chunks
              = last.results.total_chunks
        /\ last.results.processed_chunks
              = last.results.successful_chunks + last.results.failed_chunks

\* C30: import_chunked with max_retries <= 0 makes no import attempt for a
\* selected chunk whose file exists: its record stays as it was, the chunk
\* is counted in processed_chunks and in neither successful_chunks nor
\* failed_chunks, and no errors entry is added for it.
C30_NoAttemptWithoutRetries ==
    (InRun /\ run.max_retries <= 0) =>
        /\ \A j \in 1..Len(hist.taken) :
              LET t == hist.taken[j]
              IN  t.exists => /\ t.calls = 0
                              /\ t.marked = 0
                              /\ ledger[t.chunk] = run.before[t.chunk]
        /\ run.results.processed_chunks
              = Cardinality((1..Len(hist.taken)) \ MissingTaken)
        /\ run.results.successful_chunks = 0
        /\ run.results.failed_chunks = Cardinality(MissingTaken)
        /\ Len(run.results.errors) = Cardinality(MissingTaken)
        /\ \A k \in 1..Len(run.results.errors) :
              \E j \in MissingTaken :
                 ledger[hist.taken[j].chunk].chunk_number = run.results.errors[k].chunk

\* a run with a negative max_retries has returned over two chunks, one
\* whose file exists and one whose file is missing
C30_Witness ==
    /\ Returned
    /\ run.max_retries < 0
    /\ Len(hist.taken) = 2
    /\ Cardinality(MissingTaken) = 1
    /\ last.results.processed_chunks = 1

(***************************************************************************)
(* Further properties of the ledger under the manager's operations (Spec). *)
(***************************************************************************)
\* the record carries no trace of an import attempt
NeverStarted(record) ==
    /\ record.started_at = None
    /\ record.completed_at = None
    /\ record.duration_seconds = None
    /\ record.error_message = None
    /\ record.rows_imported = Some(0)
    /\ record.retry_count = 0

\* the step is a chunk_csv call
IsChunkCsv == pc = "idle" /\ pc' = "done" /\ last'.op = "chunk_csv"

\* the step is a delete_chunks call
IsDelete == pc = "idle" /\ pc' = "done" /\ last'.op = "delete_chunks"

\* C29: in every reachable ledger state a chunk with status pending has
\* started_at, completed_at, duration_seconds and error_message null,
\* rows_imported 0 and retry_count 0; only chunk_csv and reset_chunks make
\* a record pending (delete_chunks removes records, every other step
\* leaves a record pending only where it was pending).
C29_PendingNeverStarted ==
    [][/\ \A i \in 1..Len(ledger') :
             ledger'[i].status = "pending" => NeverStarted(ledger'[i])
       /\ \/ IsChunkCsv
          \/ IsReset
          \/ /\ IsDelete
             /\ \A j \in 1..Len(ledger') : \E i \in 1..Len(ledger) : ledger'[j] = ledger[i]
          \/ /\ Len(ledger') = Len(ledger)
             /\ \A i \in 1..Len(ledger) :
                   ledger'[i].status = "pending" => ledger[i].status = "pending"
      ]_vars

\* reset_chunks has made pending again a chunk that a run had worked on,
\* next to a chunk of the job that no run ever took up
C29_Witness ==
    /\ pc = "done"
    /\ last.op = "reset_chunks"
    /\ \E i, j \in Indices(last.key) :
          /\ ledger[i].status = "pending"
          /\ ledger[i].import_method # None
          /\ NeverStarted(ledger[i])
          /\ ledger[j].status = "pending"
          /\ ledger[j].import_method = None

(***************************************************************************)
(* SpecFiles: the chunk files and the ledger under the operations that     *)
(* write or remove them.  Job d2 has been chunked; then chunk_csv (to its  *)
(* end, on a missing source, or failing part-way), fix_chunks,             *)
(* delete_chunks, reset_chunks and import_chunked runs with the default    *)
(* arguments follow each other on either job.  The sources include a file  *)
(* whose second row holds a field with a run of three double quotes.       *)
(***************************************************************************)
QuotedSource == <<Row("1", 0), Row(Quoted(3), 0)>>

FileSources == SourceFiles \cup {QuotedSource}

InitFiles ==
    /\ \E rows \in FullSources \cup {QuotedSource}, chunk_size \in 1..MaxChunkSize :
          LET chunks == chunk_csv(rows, chunk_size)
          IN  /\ ledger = ChunkRecords("d2", chunks)
              /\ files = WriteChunks(<<>>, "d2", chunks)
    /\ target = EmptyTable
    /\ pc = "idle"
    /\ run = NoRun
    /\ last = NoLast
    /\ hist = NoHist
    /\ ops = 0
    /\ cs = NoSplit
    /\ im = NoImport
    /\ peer = NoPeer
    /\ turbo = NoTurbo

NextFiles ==
    \/ \E key \in JobKeys, rows \in FileSources, chunk_size \in 1..MaxChunkSize :
          ChunkCsv(key, rows, chunk_size)
    \/ \E key \in JobKeys : ChunkCsvMissing(key)
    \/ \E key \in JobKeys, rows \in FileSources, chunk_size \in 1..MaxChunkSize,
          written \in 0..MaxRows, partial \in BOOLEAN :
          ChunkCsvFails(key, rows, chunk_size, written, partial)
    \/ \E key \in JobKeys : FixChunks(key)
    \/ \E key \in JobKeys, delete_files \in BOOLEAN : DeleteChunks(key, delete_files)
    \/ \E key \in JobKeys : ResetChunks(key)
    \/ \E key \in JobKeys : ImportStart(key, TRUE, MaxRetries, "standard")
    \/ TakeChunk
    \/ MarkProcessing
    \/ ImportChunk(NoFaults)
    \/ MarkCompleted
    \/ ImportReturn
    \/ Finish

SpecFiles == InitFiles /\ [][NextFiles]_vars

\* C22: the ledger effect of chunk_csv with a session is all or nothing.
\* When the source file is missing it raises before any chunk file or
\* record exists; when it fails part-way none of the records of the call
\* is visible, the ledger is as it was before the call, and the chunk files
\* already written stay on disk; only a call that reaches its end makes
\* its records visible, all together.
C22_ChunkCsvAllOrNothing ==
    [][IsChunkCsv =>
          IF last'.raised
          THEN /\ ledger' = ledger
               /\ DOMAIN files \subseteq DOMAIN files'
               /\ last'.error = "FileNotFoundError" => files' = files
               /\ \A c \in 1..last'.written :
                     ChunkFilename(last'.key, c) \in DOMAIN files'
          ELSE /\ Len(ledger') = Len(ledger) + last'.count
               /\ SubSeq(ledger', 1, Len(ledger)) = ledger
               /\ \A c \in 1..last'.count :
                     LET record == ledger'[Len(ledger) + c]
                     IN  /\ record.key = last'.key
                         /\ record.chunk_number = c
                         /\ record.status = "pending"
                         /\ record.chunk_filename \in DOMAIN files'
      ]_vars

\* chunk_csv has failed on job d1 after it wrote two chunk files: both are
\* on disk, d1 has no record, the records of d2 are there
C22_Witness ==
    /\ pc = "done"
    /\ last.op = "chunk_csv"
    /\ last.key = "d1"
    /\ last.raised
    /\ last.written = 2
    /\ Indices("d1") = {}
    /\ Indices("d2") # {}
    /\ {ChunkFilename("d1", 1), ChunkFilename("d1", 2)} \subseteq DOMAIN files

\* C23: delete_chunks(table, date, delete_files) removes every chunk record
\* of the job and returns their number, leaves the records of other jobs
\* unchanged, removes the chunk files of the records iff delete_files, does
\* not fail when the chunk directory still holds other files, and
\* get_chunks of the job is the empty list afterwards.
C23_DeleteChunksRemovesJob ==
    [][IsDelete =>
          \E key \in JobKeys :
             LET gone == {ledger[i].chunk_filename : i \in Indices(key)}
                 Other(record) == record.key # key
             IN  /\ key = last'.key
                 /\ ~last'.raised
                 /\ last'.count = Cardinality(Indices(key))
                 /\ ledger' = SelectSeq(ledger, Other)
                 /\ get_chunks(key)' = <<>>
                 /\ IF last'.delete_files
                    THEN /\ DOMAIN files' = DOMAIN files \ gone
                         /\ \A n \in DOMAIN files' : files'[n] = files[n]
                    ELSE files' = files
      ]_vars

\* delete_chunks with delete_files has removed the record of job d1 and its
\* chunk file while the directory of d1 holds a file left by a chunk_csv
\* call that failed; the records of d2 are there
C23_Witness ==
    /\ pc = "done"
    /\ last.op = "delete_chunks"
    /\ last.key = "d1"
    /\ last.delete_files
    /\ last.count = 1
    /\ ChunkFilename("d1", 1) \notin DOMAIN files
    /\ ChunkFilename("d1", 2) \in DOMAIN files
    /\ Indices("d2") # {}

\* C24: once chunk_csv has written a chunk file, no operation changes its
\* contents until delete_chunks removes it.
C24_ChunkFilesWriteOnce ==
    [][\A n \in DOMAIN files \cap DOMAIN files' : files'[n] = files[n]]_vars

(***************************************************************************)
(* SpecPair: two processes run import_chunked(resume=true, max_retries=1)  *)
(* on job d1, each with its own session (two requests to the import        *)
(* route).  pc, run, last and hist belong to the process that takes        *)
(* the next step; peer holds those of the other one, and Switch hands the  *)
(* processor over between any two commits.                                 *)
(***************************************************************************)
InitPair ==
    /\ \E rows \in FullSources, chunk_size \in 1..MaxChunkSize :
          LET chunks == chunk_csv(rows, chunk_size)
          IN  /\ ledger = ChunkRecords("d1", chunks)
              /\ files = WriteChunks(<<>>, "d1", chunks)
    /\ target = EmptyTable
    /\ pc = "idle"
    /\ run = NoRun
    /\ last = NoLast
    /\ hist = NoHist
    /\ ops = 0
    /\ cs = NoSplit
    /\ im = NoImport
    /\ peer = NoPeer
    /\ turbo = NoTurbo

\* the other process goes on from where it stood
Switch ==
    /\ peer # [pc |-> pc, run |-> run, last |-> last, hist |-> hist]
    /\ peer' = [pc |-> pc, run |-> run, last |-> last, hist |-> hist]
    /\ pc' = peer.pc
    /\ run' = peer.run
    /\ last' = peer.last
    /\ hist' = peer.hist
    /\ UNCHANGED <<ledger, files, target, ops, cs, im, turbo>>

NextPair ==
    \/ ImportStart("d1", TRUE, 1, "standard")
    \/ TakeChunk
    \/ MarkProcessing
    \/ \E env \in Envs(BatchesOf(MaxRows)) : ImportChunk(env)
    \/ MarkCompleted
    \/ ImportReturn
    \/ Switch

SpecPair == InitPair /\ [][NextPair]_vars

\* the two processes
Processes == {[pc |-> pc, run |-> run, last |-> last, hist |-> hist], peer}

\* the chunks of the job that were not completed when the run of process p
\* selected its chunks
Selection(p) ==
    {i \in 1..Len(p.run.before) :
        p.run.before[i].key = p.run.key /\ p.run.before[i].status # "completed"}

Quiet ==
    /\ ledger = <<>>
    /\ files = <<>>
    /\ target = EmptyTable
    /\ pc = "idle"
    /\ run = NoRun
    /\ last = NoLast
    /\ hist = NoHist
    /\ ops = 0
    /\ peer = NoPeer

SplitInputs ==
    {[NoSplit EXCEPT !.rows = t, !.chunk_size = c] :
        t \in 0..MaxSplitRows, c \in 1..MaxSplitSize}

InitChunk == Quiet /\ cs \in SplitInputs /\ im = NoImport /\ turbo = NoTurbo

SplitSource ==
    /\ ~cs.done
    /\ LET chunks == chunk_csv([i \in 1..cs.rows |-> i], cs.chunk_size)
       IN  cs' = [cs EXCEPT
                    !.done = TRUE,
                    !.chunks = chunks,
                    !.records = ChunkRecords("d1", chunks)]
    /\ UNCHANGED <<ledger, files, target, pc, run, last, hist, ops, im, peer, turbo>>

NextChunk == SplitSource

SpecChunk == InitChunk /\ [][NextChunk]_vars

RowRange(r) == r.chunk_start_row .. r.chunk_end_row

Ceil(t, c) == (t + c - 1) \div c

RowCounts(records) == [j \in 1..Len(records) |-> records[j].chunk_row_count]

\* C6: the row ranges of the records of one chunk_csv call are pairwise
\* disjoint, their union is 1..T for the T data rows of the source, and their
\* chunk_row_count values sum to T, for every chunk size >= 1.
C6_RangesPartitionSource ==
    cs.done =>
        LET R == cs.records
        IN  /\ \A i, j \in 1..Len(R) :
                  i # j => RowRange(R[i]) \cap RowRange(R[j]) = {}
            /\ UNION {RowRange(R[i]) : i \in 1..Len(R)} = 1..cs.rows
            /\ SumSeq(RowCounts(R)) = cs.rows

\* a source split into three chunks or more, the last one partial
C6_Witness ==
    /\ cs.done
    /\ Len(cs.records) >= 3
    /\ cs.records[Len(cs.records)].chunk_row_count < cs.chunk_size

\* C7: chunk_csv creates exactly ceil(T/C) chunks, numbered 1, 2, ... in
\* file order; every chunk but the last holds C rows, the last holds the
\* remaining 1..C rows; a source without data rows creates no chunk.
C7_ChunkCountAndSizes ==
    cs.done =>
        LET R == cs.records
            n == Ceil(cs.rows, cs.chunk_size)
        IN  /\ Len(R) = n
            /\ Len(cs.chunks) = n
            /\ \A j \in 1..n :
                  /\ R[j].chunk_number = j
                  /\ R[j].chunk_filename = ChunkFilename("d1", j)
                  /\ Len(cs.chunks[j].rows) = R[j].chunk_row_count
                  /\ \A k \in 1..Len(cs.chunks[j].rows) :
                        cs.chunks[j].rows[k] = (j - 1) * cs.chunk_size + k
            /\ \A j \in 1..(n - 1) : R[j].chunk_row_count = cs.chunk_size
            /\ n >= 1 =>
                  /\ R[n].chunk_row_count = cs.rows - (n - 1) * cs.chunk_size
                  /\ R[n].chunk_row_count \in 1..cs.chunk_size
            /\ cs.rows = 0 => R = <<>>

\* five rows at chunk size two give chunks of 2, 2 and 1 rows (the shape of
\* 25,000 rows at 10,000)
C7_Witness ==
    /\ cs.done
    /\ cs.rows = 5
    /\ cs.chunk_size = 2
    /\ RowCounts(cs.records) = <<2, 2, 1>>

(***************************************************************************)
(* SpecImporter: one importer applied alone to a chunk file, twice in a    *)
(* row: im.rows is the file, im.start the target table before the first    *)
(* call, im.first and im.second what the two calls yield.                  *)
(***************************************************************************)
Tables == [Keys -> {0, 1}]

ImportInputs ==
    {[NoImport EXCEPT !.rows = r, !.start = t] :
        r \in SeqsUpTo(RowValues, MaxFileRows), t \in Tables}

InitImporter == Quiet /\ cs = NoSplit /\ im \in ImportInputs /\ turbo = NoTurbo

ImportFile(import_method, env) ==
    /\ im.stage = 0
    /\ im' = [im EXCEPT !.stage = 1, !.import_method = import_method, !.env1 = env,
                        !.first = Importer(import_method, im.rows, im.start, env)]
    /\ UNCHANGED <<ledger, files, target, pc, run, last, hist, ops, cs, peer, turbo>>

ImportFileAgain(env) ==
    /\ im.stage = 1
    /\ im' = [im EXCEPT !.stage = 2, !.env2 = env,
                        !.second = Importer(im.import_method, im.rows,
                                            im.first.committed, env)]
    /\ UNCHANGED <<ledger, files, target, pc, run, last, hist, ops, cs, peer, turbo>>

NextImporter ==
    \/ \E import_method \in ImportMethods, env \in Envs(BatchesOf(MaxFileRows)) :
          ImportFile(import_method, env)
    \/ \E env \in Envs(BatchesOf(MaxFileRows)) : ImportFileAgain(env)

SpecImporter == InitImporter /\ [][NextImporter]_vars

\* C8: importing the same chunk file a second time leaves the target table
\* with the same set of primary keys and the same row count as importing it
\* once (the first import undisturbed by the environment, the second one
\* under any faults).
C8_SecondImportChangesNothing ==
    (im.stage = 2 /\ im.env1 = NoFaults) =>
        /\ KeysOf(im.second.committed) = KeysOf(im.first.committed)
        /\ CountRows(im.second.committed) = CountRows(im.first.committed)
        /\ \A k \in Keys : im.second.committed[k] <= 1

\* a file whose first import added rows is imported again, undisturbed, and
\* its insert statements are executed
C8_Witness ==
    /\ im.stage = 2
    /\ im.env1 = NoFaults
    /\ im.env2 = NoFaults
    /\ CountRows(im.first.committed) > CountRows(im.start)
    /\ ~im.second.raised
    /\ im.second.batches >= 1
    /\ im.second.failed_batches = 0

\* C10: in import_csv every data row of the wrong width or with an id that
\* is no integer is skipped and counted, every other row is submitted for
\* insert, and the call does not raise because of such a row.
C10_MalformedRowsSkippedAndCounted ==
    (im.stage >= 1 /\ im.import_method = "standard" /\ ~im.env1.fault) =>
        LET good == SelectSeq(im.rows, WellFormed)
        IN  /\ ~im.first.raised
            /\ im.first.skipped_rows = Len(im.rows) - Len(good)
            /\ im.first.submitted = [i \in 1..Len(good) |-> Some(good[i].id)]


(***************************************************************************)
(* SpecTurbo: import_table_parallel (import_turbo.py) on a file of         *)
(* turbo.total_rows rows with turbo.num_workers worker threads.  The main  *)
(* thread starts the workers one after the other; each worker, once        *)
(* started, runs on its own.                                               *)
(***************************************************************************)
\* ranges that give every worker rows_per_worker rows
WorkerRange_even(total_rows, num_workers, i) ==
    LET rows_per_worker == total_rows \div num_workers
    IN  [start_row |-> i * rows_per_worker, end_row |-> (i + 1) * rows_per_worker]

\* "Calculate row ranges for each worker": start_row and end_row of worker i
WorkerRange(total_rows, num_workers, i) ==
    LET rows_per_worker == total_rows \div num_workers
    IN  [start_row |-> i * rows_per_worker,
         end_row |-> IF i < num_workers - 1 THEN (i + 1) * rows_per_worker
                     ELSE total_rows]

TurboInputs ==
    {[NoTurbo EXCEPT !.total_rows = t, !.num_workers = w] :
        t \in 0..MaxTotalRows, w \in 1..MaxWorkers}

InitTurbo == Quiet /\ cs = NoSplit /\ im = NoImport /\ turbo \in TurboInputs

\* "for i in range(num_workers)": the thread of worker i is created with
\* its row range and started
StartWorker ==
    LET i == Len(turbo.workers)
        r == WorkerRange(turbo.total_rows, turbo.num_workers, i)
    IN  /\ i < turbo.num_workers
        /\ turbo' = [turbo EXCEPT
                       !.workers = Append(@, [worker_id |-> i,
                                              start_row |-> r.start_row,
                                              end_row |-> r.end_row,
                                              session |-> None,
                                              pc |-> "started"])]
        /\ UNCHANGED <<ledger, files, target, pc, run, last, hist, ops, cs, im, peer>>

\* import_table_worker, "session = SessionLocal()": a new session, opened
\* by the worker and held in a local variable of its thread
OpenSession(w) ==
    /\ turbo.workers[w].pc = "started"
    /\ turbo' = [turbo EXCEPT
                   !.sessions = @ + 1,
                   !.workers[w] = [@ EXCEPT
                                     !.session = Some([id |-> turbo.sessions + 1,
                                                       opened_by |-> turbo.workers[w].worker_id]),
                                     !.pc = "importing"]]
    /\ UNCHANGED <<ledger, files, target, pc, run, last, hist, ops, cs, im, peer>>

\* import_table_worker, the call importer.import_csv_range(session=session,
\* start_row, end_row) to the end of the worker.  DataImporter has no method
\* import_csv_range: the call raises AttributeError, the except branch puts
\* success False on the results queue, and the target table is unchanged.
WorkerEnds(w) ==
    /\ turbo.workers[w].pc = "importing"
    /\ turbo' = [turbo EXCEPT !.workers[w] = [@ EXCEPT !.pc = "failed"]]
    /\ UNCHANGED <<ledger, files, target, pc, run, last, hist, ops, cs, im, peer>>

NextTurbo ==
    \/ StartWorker
    \/ \E w \in 1..Len(turbo.workers) : OpenSession(w)
    \/ \E w \in 1..Len(turbo.workers) : WorkerEnds(w)

SpecTurbo == InitTurbo /\ [][NextTurbo]_vars

\* the rows of the half-open range [start_row, end_row) of worker w
WorkerRows(w) ==
    {r \in 0..turbo.total_rows :
        turbo.workers[w].start_row <= r /\ r < turbo.workers[w].end_row}

====
